---- MODULE Spec2Model ----
(***************************************************************************)
(* A model of backend/memory.py (class Process) over the kernel32 wrappers *)
(* of backend/kernel32.py: the patch registry, the hook registry, the      *)
(* thread suspend counts and the memory of one target process.             *)
(*                                                                         *)
(* Byte strings are sequences over 0..255.  A Python value that may be     *)
(* None is a record: None, or Some(v).  add_hook, detour_hook and          *)
(* remove_hook run statement by statement (pc), the other methods in one   *)
(* step.  A raised exception ends the call where it is raised: the         *)
(* statements after it do not run.                                         *)
(***************************************************************************)
EXTENDS Integers, Sequences, FiniteSets, TLC

\* ------------------------------------------------------------- bounds
MaxPad == 1         \* largest number of padding bytes an instr_length adds
MaxCodeLen == 1     \* longest injected code (new_code)
MaxBlocks == 2      \* blocks the allocator can hand out at a time
MaxSuspend == 2     \* a call that suspends starts only below this count
MaxPatchLen == 2    \* longest patch (instructions)
MaxHookCalls == 3   \* add_hook and remove_hook calls in one run
MaxRegions == 5     \* regions of a layout

\* ---------------------------------------------------------- constants
NearLen == 5        \* E9 + rel32
FarLen == 14        \* FF 25 00 00 00 00 + abs64
NOP == 144          \* 0x90
JMP_REL32 == 233    \* 0xE9
PAGE_EXECUTE_READ == 32
PAGE_EXECUTE_READWRITE == 64
PageSize == 4096
AllocationGranularity == 65536
CodeBase == 4096    \* 0x1000, the page the hooks and patches go to
process_id == 7     \* the target; OtherPid owns the other threads
OtherPid == 9

None == [isNone |-> TRUE]
Some(v) == [isNone |-> FALSE, val |-> v]

\* ------------------------------------------------------------- inputs
HookStride == FarLen + MaxPad + 1
PatchBase == CodeBase + 2 * HookStride
UnmappedAddr == CodeBase + 2 * PageSize     \* an address where nothing is mapped
HookNames == {"h1", "h2"}
PatchNames == {"p1", "p2"}
HookAddrs == {CodeBase, CodeBase + HookStride, UnmappedAddr}
\* Too short, exact and padded for the target's redirect; the too-short length
\* of a 64-bit target is the 5 of a near jump.
InstrLens(b32) == IF b32 THEN {NearLen - 1} \cup (NearLen .. NearLen + MaxPad)
                  ELSE {NearLen} \cup (FarLen .. FarLen + MaxPad)
RET == 195          \* 0xC3
INT3 == 204         \* 0xCC
Codes == {[i \in 1..n |-> IF i = n THEN RET ELSE NOP] : n \in 1..MaxCodeLen}
PatchAddrs == {PatchBase, PatchBase + 1}
PatchBytes == {[i \in 1..n |-> IF i = 1 THEN INT3 ELSE NOP] : n \in 1..MaxPatchLen}

\* The system-wide thread snapshot: entries of THREADENTRY32.
Snapshot == << [tid |-> 1, owner |-> process_id],
               [tid |-> 2, owner |-> OtherPid],
               [tid |-> 3, owner |-> process_id] >>
Threads == {Snapshot[i].tid : i \in 1..Len(Snapshot)}
TargetThreads == {Snapshot[i].tid : i \in {j \in 1..Len(Snapshot) : Snapshot[j].owner = process_id}}

\* --------------------------------------------------- the target's memory
BlockBases == {AllocationGranularity * k : k \in 1..MaxBlocks}
TrackLen == MaxCodeLen + FarLen
CodeAddrs == CodeBase .. (PatchBase + MaxPatchLen + 1)
BlockAddrs == UNION {b .. (b + TrackLen - 1) : b \in BlockBases}
Addrs == CodeAddrs \cup BlockAddrs
\* What the code page holds before anything is written: bytes that are
\* neither NOP nor an opcode of a redirect, and differ from byte to byte.
InitByte(a) == 16 + (a % 64)

VARIABLES
    is32,       \* is_process_32bit(self.handle): the target's bitness
    mem,        \* the target's memory, byte by byte
    prot,       \* the protection of the code page
    blocks,     \* allocated blocks: base -> the size asked for
    susp,       \* suspend count of every thread of the snapshot
    patches,    \* self.patches: name -> [address, old_data]
    hooks,      \* self.hooks: name -> [hook_address, old_bytes, target_address]
    pc,         \* the statement the running call is at, "idle" between calls
    frame,      \* the running call's arguments and locals
    ret,        \* the last call that returned or raised, and how
    entry,      \* the state when the running (or last) add_hook or remove_hook began
    applied,    \* per patch name: what its last add_patch saw and did
    installed,  \* per hook name: what its last add_hook that returned saw and did
    past,       \* the last two patch or thread calls in a row, latest first
    calls,      \* how many add_hook and remove_hook calls have begun
    exited,     \* threads of the snapshot that have exited: OpenThread fails
    scan        \* the last yield_memory_regions call: what it saw and yielded

vars == <<is32, mem, prot, blocks, susp, patches, hooks, pc, frame, ret, entry,
          applied, installed, past, calls, exited, scan>>

\* ------------------------------------------------------ byte strings
Byte(x, k) == (x \div (256 ^ k)) % 256
\* struct.pack("i", x): 4 bytes, little-endian, two's complement.
PackI(x) == << Byte(x, 0), Byte(x, 1), Byte(x, 2), Byte(x, 3) >>
\* struct.pack("Q", x): 8 bytes, little-endian, unsigned. Every address of
\* the model is below 2^31, so the four high bytes are 0.
PackQ(x) == << Byte(x, 0), Byte(x, 1), Byte(x, 2), Byte(x, 3), 0, 0, 0, 0 >>
FAR_PREFIX == << 255, 37, 0, 0, 0, 0 >>     \* b'\xFF\x25\x00\x00\x00\x00'
Nops(n) == [i \in 1..n |-> NOP]             \* b'\x90' * n

\* ------------------------------------------- kernel32, as the code uses it
PageOf(a) ==
    IF a >= CodeBase /\ a < CodeBase + PageSize THEN "code"
    ELSE IF \E b \in DOMAIN blocks : a >= b /\ a < b + PageSize THEN "block"
    ELSE "none"
\* The range a .. a+n-1 lies in committed memory.
Mapped(a, n) ==
    /\ n >= 1
    /\ PageOf(a) # "none"
    /\ PageOf(a + n - 1) = PageOf(a)
Writable(a, n) ==
    /\ Mapped(a, n)
    /\ PageOf(a) = "code" => prot = PAGE_EXECUTE_READWRITE
Bytes(m, a, n) == [i \in 1..n |-> m[a + i - 1]]
Store(m, a, bs) ==
    [x \in DOMAIN m |-> IF x >= a /\ x < a + Len(bs) THEN bs[x - a + 1] ELSE m[x]]
\* ReadProcessMemory: the bytes, or None when the call fails.
ReadProcessMemory(a, n) == IF Mapped(a, n) THEN Some(Bytes(mem, a, n)) ELSE None
\* WriteProcessMemory: whether the write succeeded; it writes all or nothing.
WriteOk(a, bs) == Writable(a, Len(bs))
WriteProcessMemory(m, a, bs) == IF WriteOk(a, bs) THEN Store(m, a, bs) ELSE m
SuspendThread(c) == c + 1
\* A resume that makes the thread runnable whatever its count was.
ResumeThread_Wake(c) == 0
ResumeThread(c) == IF c > 0 THEN c - 1 ELSE 0

\* ------------------------------------------------ Process.suspend / resume
\* OpenThread gives a handle for a thread that has not exited; for one that
\* has, it gives no handle, SuspendThread and ResumeThread of it fail and
\* change nothing, and the loop goes on.
Opens(tid) == tid \notin exited
\* The loop without the owner test of line 111.
RECURSIVE SuspendLoop_All(_, _)
SuspendLoop_All(s, i) ==
    IF i > Len(Snapshot) THEN s
    ELSE SuspendLoop_All(IF Opens(Snapshot[i].tid)
                         THEN [s EXCEPT ![Snapshot[i].tid] = SuspendThread(@)]
                         ELSE s, i + 1)
\* The loop if a thread that cannot be opened ended it.
RECURSIVE SuspendLoop_Abort(_, _)
SuspendLoop_Abort(s, i) ==
    IF i > Len(Snapshot) THEN s
    ELSE IF Snapshot[i].owner # process_id THEN SuspendLoop_Abort(s, i + 1)
    ELSE IF ~Opens(Snapshot[i].tid) THEN s
    ELSE SuspendLoop_Abort([s EXCEPT ![Snapshot[i].tid] = SuspendThread(@)], i + 1)
RECURSIVE SuspendLoop(_, _)
SuspendLoop(s, i) ==
    IF i > Len(Snapshot) THEN s
    ELSE SuspendLoop(IF Snapshot[i].owner = process_id /\ Opens(Snapshot[i].tid)
                     THEN [s EXCEPT ![Snapshot[i].tid] = SuspendThread(@)]
                     ELSE s, i + 1)
RECURSIVE ResumeLoop(_, _)
ResumeLoop(s, i) ==
    IF i > Len(Snapshot) THEN s
    ELSE ResumeLoop(IF Snapshot[i].owner = process_id /\ Opens(Snapshot[i].tid)
                    THEN [s EXCEPT ![Snapshot[i].tid] = ResumeThread(@)]
                    ELSE s, i + 1)
\* A suspend that stops after the first thread of the target.
suspend_First(s) ==
    LET i == CHOOSE j \in 1..Len(Snapshot) :
                 /\ Snapshot[j].owner = process_id
                 /\ \A k \in 1..(j - 1) : Snapshot[k].owner # process_id
    IN  [s EXCEPT ![Snapshot[i].tid] = SuspendThread(@)]
suspend(s) == SuspendLoop(s, 1)
resume(s) == ResumeLoop(s, 1)
MaySuspend == \A t \in TargetThreads : susp[t] < MaxSuspend

\* --------------------------------------------------------------- state
\* injected is new_code as the caller passed it, failed the platform calls of
\* the running call that failed.
NoFrame == [hook_name |-> "", hook_address |-> 0, hook_instr_len |-> 0,
            new_code |-> <<>>, target_address |-> None, old_protect |-> None,
            hook |-> <<>>, old_bytes |-> None, injected |-> <<>>, failed |-> {}]
Past(op, name, outcome, wrote) ==
    [op |-> op, name |-> name, outcome |-> outcome, wrote |-> wrote,
     mem |-> mem, patches |-> patches, hooks |-> hooks, susp |-> susp,
     exited |-> exited]
Latest(call) == IF past = <<>> THEN <<call>> ELSE <<call, past[1]>>
Snap == [mem |-> mem, prot |-> prot, blocks |-> blocks, susp |-> susp,
         patches |-> patches, hooks |-> hooks]
Ret(op, name, outcome) == [op |-> op, name |-> name, outcome |-> outcome]

NoScan == [layout |-> <<>>, ceiling |-> FALSE, state |-> None, protect |-> None,
           m_type |-> None, yielded |-> <<>>, queries |-> 0, ended |-> "",
           outcome |-> "none"]

Init ==
    /\ is32 \in BOOLEAN
    /\ mem = [a \in Addrs |-> IF a \in CodeAddrs THEN InitByte(a) ELSE 0]
    /\ prot \in {PAGE_EXECUTE_READ, PAGE_EXECUTE_READWRITE}
    /\ blocks = << >>
    /\ susp = [t \in Threads |-> 0]
    /\ patches = << >>
    /\ hooks = << >>
    /\ pc = "idle"
    /\ frame = NoFrame
    /\ ret = Ret("init", "", "ok")
    /\ entry = None
    /\ applied = << >>
    /\ installed = << >>
    /\ past = << >>
    /\ calls = 0
    /\ exited = {}
    /\ scan = NoScan

\* A range a .. a+n-1 meets the range of another name's patch or hook
\* (overlapping installs are the caller's error).
Meets(a, n, b, m) == a < b + m /\ b < a + n
Footprint(len) == IF is32 THEN (IF len > NearLen THEN len ELSE NearLen)
                  ELSE (IF len > FarLen THEN len ELSE FarLen)
PatchLen(p) == IF patches[p].old_data.isNone THEN 1 ELSE Len(patches[p].old_data.val)
Disjoint(kind, name, a, n) ==
    /\ \A p \in DOMAIN patches :
          (kind = "patch" /\ p = name) \/ ~Meets(a, n, patches[p].address, PatchLen(p))
    /\ \A h \in DOMAIN hooks :
          (kind = "hook" /\ h = name) \/
          ~Meets(a, n, hooks[h].hook_address,
                 IF hooks[h].old_bytes.isNone THEN 1 ELSE Footprint(Len(hooks[h].old_bytes.val)))

\* ----------------------------------------------------- Process.add_patch
\* lines 199-201. Neither the result of the read nor that of the write is
\* looked at, and no name is refused.
add_patch(patch_name, address, instructions) ==
    LET old_data == ReadProcessMemory(address, Len(instructions)) IN
    /\ mem' = WriteProcessMemory(mem, address, instructions)
    /\ patches' = [p \in DOMAIN patches \cup {patch_name} |->
                     IF p = patch_name THEN [address |-> address, old_data |-> old_data]
                     ELSE patches[p]]
    /\ applied' = [p \in DOMAIN applied \cup {patch_name} |->
                     IF p = patch_name
                     THEN [address |-> address, before |-> old_data,
                           instructions |-> instructions,
                           written |-> WriteOk(address, instructions),
                           toggles |-> 0]
                     ELSE applied[p]]
    /\ ret' = Ret("add_patch", patch_name, "ok")
    /\ past' = Latest(Past("add_patch", patch_name, "ok", WriteOk(address, instructions)))

AddPatch ==
    /\ pc = "idle"
    /\ \E patch_name \in PatchNames, address \in PatchAddrs, instructions \in PatchBytes :
          /\ Disjoint("patch", patch_name, address, Len(instructions))
          /\ add_patch(patch_name, address, instructions)
    /\ entry' = None
    /\ frame' = NoFrame
    /\ UNCHANGED <<exited, scan, is32, prot, blocks, susp, hooks, pc, installed, calls>>

\* -------------------------------------------------- Process.toggle_patch
\* The toggle count kept for a patch: 0 none yet, 1 an odd number, 2 an
\* even number (2, 4, ...).
Toggled(n) == IF n = 1 THEN 2 ELSE 1
\* A toggle that writes the stored bytes back but keeps them stored: what
\* toggle_patch would be without line 209.
toggle_patch_KeepStored(patch_name) ==
    IF patch_name \notin DOMAIN patches \/ patches[patch_name].old_data.isNone
    THEN /\ ret' = Ret("toggle_patch", patch_name, "KeyError")
         /\ past' = Latest(Past("toggle_patch", patch_name, "KeyError", FALSE))
         /\ UNCHANGED <<mem, patches, applied>>
    ELSE LET address == patches[patch_name].address
             old_data == patches[patch_name].old_data
         IN  /\ mem' = WriteProcessMemory(mem, address, old_data.val)
             /\ applied' = [applied EXCEPT ![patch_name].toggles = Toggled(@),
                                           ![patch_name].written =
                                               @ /\ WriteOk(address, old_data.val)]
             /\ ret' = Ret("toggle_patch", patch_name, "ok")
             /\ past' = Latest(Past("toggle_patch", patch_name, "ok",
                                    WriteOk(address, old_data.val)))
             /\ UNCHANGED patches
\* A toggle that stores the bytes it read but does not write the stored
\* ones: what toggle_patch would be without line 208.
toggle_patch_NoWrite(patch_name) ==
    IF patch_name \notin DOMAIN patches \/ patches[patch_name].old_data.isNone
    THEN /\ ret' = Ret("toggle_patch", patch_name, "KeyError")
         /\ past' = Latest(Past("toggle_patch", patch_name, "KeyError", FALSE))
         /\ UNCHANGED <<mem, patches, applied>>
    ELSE LET address == patches[patch_name].address
             old_data == patches[patch_name].old_data
         IN  /\ patches' = [patches EXCEPT ![patch_name].old_data =
                               ReadProcessMemory(address, Len(old_data.val))]
             /\ applied' = [applied EXCEPT ![patch_name].toggles = Toggled(@),
                                           ![patch_name].written =
                                               @ /\ WriteOk(address, old_data.val)]
             /\ ret' = Ret("toggle_patch", patch_name, "ok")
             /\ past' = Latest(Past("toggle_patch", patch_name, "ok",
                                    WriteOk(address, old_data.val)))
             /\ UNCHANGED mem
\* lines 204-209
toggle_patch(patch_name) ==
    IF patch_name \notin DOMAIN patches
    THEN /\ ret' = Ret("toggle_patch", patch_name, "KeyError")
         /\ past' = Latest(Past("toggle_patch", patch_name, "KeyError", FALSE))
         /\ UNCHANGED <<mem, patches, applied>>
    ELSE LET address == patches[patch_name].address
             old_data == patches[patch_name].old_data
         IN  IF old_data.isNone
             THEN \* len(None) raises
                  /\ ret' = Ret("toggle_patch", patch_name, "TypeError")
                  /\ past' = Latest(Past("toggle_patch", patch_name, "TypeError", FALSE))
                  /\ UNCHANGED <<mem, patches, applied>>
             ELSE LET patch_size == Len(old_data.val)
                      patch_address == address
                      patch_instructions == ReadProcessMemory(patch_address, patch_size)
                  IN  /\ mem' = WriteProcessMemory(mem, patch_address, old_data.val)
                      /\ patches' = [patches EXCEPT ![patch_name] =
                                        [address |-> patch_address,
                                         old_data |-> patch_instructions]]
                      /\ applied' = [applied EXCEPT ![patch_name].toggles = Toggled(@),
                                                    ![patch_name].written =
                                                        @ /\ WriteOk(patch_address, old_data.val)]
                      /\ ret' = Ret("toggle_patch", patch_name, "ok")
                      /\ past' = Latest(Past("toggle_patch", patch_name, "ok",
                                             WriteOk(patch_address, old_data.val)))

TogglePatch ==
    /\ pc = "idle"
    /\ \E patch_name \in PatchNames : toggle_patch(patch_name)
    /\ entry' = None
    /\ frame' = NoFrame
    /\ UNCHANGED <<exited, scan, is32, prot, blocks, susp, hooks, pc, installed, calls>>

\* ----------------------------------------------- suspend, resume as calls
Suspend ==
    /\ pc = "idle"
    /\ MaySuspend
    /\ susp' = suspend(susp)
    /\ ret' = Ret("suspend", "", "ok")
    /\ entry' = None
    /\ frame' = NoFrame
    /\ past' = Latest(Past("suspend", "", "ok", FALSE))
    /\ UNCHANGED <<exited, scan, is32, mem, prot, blocks, patches, hooks, pc, applied, installed, calls>>

Resume ==
    /\ pc = "idle"
    /\ susp' = resume(susp)
    /\ ret' = Ret("resume", "", "ok")
    /\ entry' = None
    /\ frame' = NoFrame
    /\ past' = Latest(Past("resume", "", "ok", FALSE))
    /\ UNCHANGED <<exited, scan, is32, mem, prot, blocks, patches, hooks, pc, applied, installed, calls>>

\* A thread of the snapshot exits between two calls.
ExitThread ==
    /\ pc = "idle"
    /\ \E t \in Threads \ exited : exited' = exited \cup {t}
    /\ UNCHANGED <<scan, is32, mem, prot, blocks, susp, patches, hooks, pc, frame,
                   ret, entry, applied, installed, past, calls>>

\* ------------------------------------------- Process.yield_memory_regions
\* The regions of the target: what MEMORY_BASIC_INFORMATION says of a region
\* mapped from a file, of a private one and of a free one. A layout is a
\* sequence of them that starts at the minimum application address and has
\* no gaps.
MEM_COMMIT == 4096
MEM_FREE == 65536
MEM_PRIVATE == 131072
MEM_IMAGE == 16777216
PAGE_NOACCESS == 1
PAGE_READWRITE == 4
ImageRegion == [RegionSize |-> 2 * PageSize, State |-> MEM_COMMIT,
                Protect |-> PAGE_EXECUTE_READ, Type |-> MEM_IMAGE]
PrivateRegion == [RegionSize |-> PageSize, State |-> MEM_COMMIT,
                  Protect |-> PAGE_READWRITE, Type |-> MEM_PRIVATE]
FreeRegion == [RegionSize |-> 3 * PageSize, State |-> MEM_FREE,
               Protect |-> PAGE_NOACCESS, Type |-> 0]
RegionKinds == {ImageRegion, PrivateRegion, FreeRegion}
Layouts == UNION {[1..n -> RegionKinds] : n \in 0..MaxRegions}
\* The filter arguments the docstring names, each given or left None.
StateFilters == {None, Some(MEM_COMMIT), Some(MEM_FREE)}
ProtectFilters == {None, Some(PAGE_EXECUTE_READ), Some(PAGE_READWRITE)}
TypeFilters == {None, Some(MEM_IMAGE), Some(MEM_PRIVATE)}

\* GetSystemInfo: the layout begins at lpMinimumApplicationAddress; it either
\* ends at the address-space ceiling (its last byte is
\* lpMaximumApplicationAddress) or below it.
min_address == AllocationGranularity
RECURSIVE EndOf(_, _)
EndOf(layout, i) == IF i = 0 THEN min_address
                    ELSE EndOf(layout, i - 1) + layout[i].RegionSize
max_address(layout, ceiling) ==
    IF ceiling /\ Len(layout) > 0 THEN EndOf(layout, Len(layout)) - 1
    ELSE EndOf(layout, Len(layout)) + PageSize - 1

\* VirtualQueryEx: the region that holds address, from the page of address
\* to the region's end, or None when no region does.
VirtualQueryEx(layout, address) ==
    LET holds == {i \in 1..Len(layout) :
                     EndOf(layout, i - 1) <= address /\ address < EndOf(layout, i)}
    IN  IF holds = {} THEN None
        ELSE LET i == CHOOSE j \in holds : TRUE
                 base == address - (address % PageSize)
             IN  Some([BaseAddress |-> base,
                       RegionSize |-> EndOf(layout, i) - base,
                       State |-> layout[i].State,
                       Protect |-> layout[i].Protect,
                       Type |-> layout[i].Type])

\* "if state:" takes None and 0 for no filter.
Truthy(x) == ~x.isNone /\ x.val # 0
\* A filter that lets a region through when any one of the three tests
\* passes: what line 180 would be with "or" for "and".
Passes_Any(info, state, protect, m_type) ==
    LET bState == IF Truthy(state) THEN info.State = state.val ELSE TRUE
        bProtect == IF Truthy(protect) THEN info.Protect = protect.val ELSE TRUE
        bType == IF Truthy(m_type) THEN info.Type = m_type.val ELSE TRUE
    IN  bState \/ bProtect \/ bType
\* lines 171-180
Passes(info, state, protect, m_type) ==
    LET bState == IF Truthy(state) THEN info.State = state.val ELSE TRUE
        bProtect == IF Truthy(protect) THEN info.Protect = protect.val ELSE TRUE
        bType == IF Truthy(m_type) THEN info.Type = m_type.val ELSE TRUE
    IN  bState /\ bProtect /\ bType

\* lines 170-186: the loop, from the query result it is entered with. The
\* generator ends without an exception however the loop ends.
RECURSIVE ScanLoop(_, _, _, _, _, _, _)
ScanLoop(layout, max, state, protect, m_type, mem_basic_info, out) ==
    IF mem_basic_info.isNone
    THEN [out EXCEPT !.ended = "query"]
    ELSE LET info == mem_basic_info.val
             yielded == IF Passes(info, state, protect, m_type)
                        THEN Append(out.yielded, info) ELSE out.yielded
             address == info.BaseAddress + info.RegionSize
             now == [out EXCEPT !.yielded = yielded, !.queries = @ + 1]
         IN  IF address > max
             THEN [now EXCEPT !.ended = "break"]
             ELSE ScanLoop(layout, max, state, protect, m_type,
                           VirtualQueryEx(layout, address), now)

\* lines 164-186
yield_memory_regions(layout, ceiling, state, protect, m_type) ==
    ScanLoop(layout, max_address(layout, ceiling), state, protect, m_type,
             VirtualQueryEx(layout, min_address),
             [yielded |-> <<>>, queries |-> 0, ended |-> "", outcome |-> "ok"])

\* The code keeps nothing between two scans, so what a scan yields does not
\* depend on the scans before it: one scan in a run stands for them all.
YieldMemoryRegions ==
    /\ pc = "idle"
    /\ scan = NoScan
    /\ \E layout \in Layouts, ceiling \in BOOLEAN, state \in StateFilters,
          protect \in ProtectFilters, m_type \in TypeFilters :
          scan' = yield_memory_regions(layout, ceiling, state, protect, m_type)
                    @@ [layout |-> layout, ceiling |-> ceiling, state |-> state,
                        protect |-> protect, m_type |-> m_type]
    /\ UNCHANGED <<exited, is32, mem, prot, blocks, susp, patches, hooks, pc, frame,
                   ret, entry, applied, installed, past, calls>>

\* The same call taken one step of the generator at a time: the statements
\* up to the loop, and then one turn of the loop per step. address is where
\* the latest query was made, seen the base addresses the queries so far
\* have answered with, twice whether one of them was answered again.
\* A cursor that stays at the base of the region just queried.
Advance_Stay(info) == info.BaseAddress
\* line 182
Advance(info) == info.BaseAddress + info.RegionSize
\* lines 164-168
ScanBegin ==
    /\ pc = "idle"
    /\ scan = NoScan
    /\ \E layout \in Layouts, ceiling \in BOOLEAN, state \in StateFilters,
          protect \in ProtectFilters, m_type \in TypeFilters :
          scan' = [layout |-> layout, ceiling |-> ceiling, state |-> state,
                   protect |-> protect, m_type |-> m_type,
                   yielded |-> <<>>, queries |-> 0, ended |-> "",
                   outcome |-> "running", address |-> min_address,
                   mem_basic_info |-> VirtualQueryEx(layout, min_address),
                   seen |-> {}, twice |-> FALSE]
    /\ UNCHANGED <<exited, is32, mem, prot, blocks, susp, patches, hooks, pc, frame,
                   ret, entry, applied, installed, past, calls>>
\* lines 170-186: one turn of the loop, or its end
ScanIterate ==
    /\ scan.outcome = "running"
    /\ IF scan.mem_basic_info.isNone
       THEN scan' = [scan EXCEPT !.ended = "query", !.outcome = "ok"]
       ELSE LET info == scan.mem_basic_info.val
                yielded == IF Passes(info, scan.state, scan.protect, scan.m_type)
                           THEN Append(scan.yielded, info) ELSE scan.yielded
                address == Advance(info)
                now == [scan EXCEPT !.yielded = yielded, !.queries = @ + 1,
                                    !.seen = @ \cup {info.BaseAddress},
                                    !.twice = @ \/ info.BaseAddress \in scan.seen]
            IN  IF address > max_address(scan.layout, scan.ceiling)
                THEN scan' = [now EXCEPT !.ended = "break", !.outcome = "ok"]
                ELSE scan' = [now EXCEPT !.address = address,
                                         !.mem_basic_info =
                                             VirtualQueryEx(scan.layout, address)]
    /\ UNCHANGED <<exited, is32, mem, prot, blocks, susp, patches, hooks, pc, frame,
                   ret, entry, applied, installed, past, calls>>

\* ------------------------------------------------------ Process.add_hook
\* An exception leaves the call at the statement that raised it.
Raise(op, exc) ==
    /\ pc' = "idle"
    /\ ret' = Ret(op, frame.hook_name, exc)

\* line 240: self.suspend()
AddHook_Suspend ==
    /\ pc = "idle"
    /\ MaySuspend
    /\ calls < MaxHookCalls
    /\ calls' = calls + 1
    /\ \E hook_name \in HookNames, hook_address \in HookAddrs,
          hook_instr_len \in InstrLens(is32), new_code \in Codes :
          /\ Disjoint("hook", hook_name, hook_address, Footprint(hook_instr_len))
          /\ frame' = [NoFrame EXCEPT !.hook_name = hook_name,
                                      !.hook_address = hook_address,
                                      !.hook_instr_len = hook_instr_len,
                                      !.new_code = new_code,
                                      !.injected = new_code]
    /\ entry' = Some(Snap)
    /\ past' = << >>
    /\ susp' = suspend(susp)
    /\ pc' = "ah_alloc"
    /\ UNCHANGED <<exited, scan, is32, mem, prot, blocks, patches, hooks, ret, applied, installed>>

\* line 241: target_address = self.alloc_rwx(len(new_code)). VirtualAllocEx
\* hands out a free block, or fails (returns None).
FreeBases == BlockBases \ DOMAIN blocks
alloc_rwx(size, ok) ==
    IF ok /\ FreeBases # {}
    THEN Some(CHOOSE b \in FreeBases : \A c \in FreeBases : b <= c)
    ELSE None
AddHook_Alloc ==
    /\ pc = "ah_alloc"
    /\ \E ok \in BOOLEAN :
          LET target_address == alloc_rwx(Len(frame.new_code), ok) IN
          /\ frame' = [frame EXCEPT !.target_address = target_address,
                                    !.failed = IF target_address.isNone
                                               THEN @ \cup {"alloc"} ELSE @]
          /\ blocks' = IF target_address.isNone THEN blocks
                       ELSE [b \in DOMAIN blocks \cup {target_address.val} |->
                               IF b = target_address.val THEN Len(frame.new_code)
                               ELSE blocks[b]]
    /\ pc' = "ah_build"
    /\ UNCHANGED <<exited, scan, is32, mem, prot, susp, patches, hooks, ret, entry, applied, installed, past, calls>>

\* lines 242-247: the trailing redirect appended to new_code.
\* The trailing redirect that returns past the whole hooked instruction:
\* what lines 243 and 246 would build if the near displacement were taken
\* from hook_address + hook_instr_len and from the end of the jump.
TrailingRedirect_PastInstr(hook_address, hook_instr_len, target_address, new_code) ==
    IF is32
    THEN <<JMP_REL32>> \o PackI(hook_address + hook_instr_len
                                  - (target_address + Len(new_code) + NearLen))
    ELSE FAR_PREFIX \o PackQ(hook_address + hook_instr_len)
TrailingRedirect(hook_address, hook_instr_len, target_address, new_code) ==
    IF is32
    THEN <<JMP_REL32>> \o PackI(hook_address - (target_address + Len(new_code)))
    ELSE FAR_PREFIX \o PackQ(hook_address + hook_instr_len)
AddHook_Build ==
    /\ pc = "ah_build"
    /\ IF is32 /\ frame.target_address.isNone
       THEN \* None + len(new_code) raises
            /\ Raise("add_hook", "TypeError")
            /\ UNCHANGED frame
       ELSE /\ frame' = [frame EXCEPT !.new_code =
                   @ \o TrailingRedirect(frame.hook_address, frame.hook_instr_len,
                                         IF frame.target_address.isNone THEN 0
                                         ELSE frame.target_address.val, @)]
            /\ pc' = "ah_write"
            /\ UNCHANGED ret
    /\ UNCHANGED <<exited, scan, is32, mem, prot, blocks, susp, patches, hooks, entry, applied, installed, past, calls>>

\* line 248: self.write(target_address, new_code); the result is dropped.
\* A None address is passed as NULL, where nothing is mapped.
AddHook_Write ==
    /\ pc = "ah_write"
    /\ IF frame.target_address.isNone
       THEN /\ mem' = mem
            /\ frame' = [frame EXCEPT !.failed = @ \cup {"write"}]
       ELSE /\ mem' = WriteProcessMemory(mem, frame.target_address.val, frame.new_code)
            /\ frame' = [frame EXCEPT !.failed =
                            IF WriteOk(frame.target_address.val, frame.new_code)
                            THEN @ ELSE @ \cup {"write"}]
    /\ pc' = "dh_protect"
    /\ UNCHANGED <<exited, scan, is32, prot, blocks, susp, patches, hooks, ret, entry, applied, installed, past, calls>>

\* --------------------------------------------------- Process.detour_hook
\* lines 216-217, 229-230: VirtualProtectEx returns the old protection, or
\* None when it fails.
ProtectOk(a, n) == Mapped(a, n)
Detour_Protect ==
    /\ pc = "dh_protect"
    /\ IF ProtectOk(frame.hook_address, frame.hook_instr_len)
       THEN /\ frame' = [frame EXCEPT !.old_protect = Some(prot)]
            /\ prot' = PAGE_EXECUTE_READWRITE
       ELSE /\ frame' = [frame EXCEPT !.old_protect = None,
                                      !.failed = @ \cup {"protect"}]
            /\ prot' = prot
    /\ pc' = "dh_encode"
    /\ UNCHANGED <<exited, scan, is32, mem, blocks, susp, patches, hooks, ret, entry, applied, installed, past, calls>>

\* lines 213-215, 218-219 and 226-228, 231-232: the forward redirect.
ForwardRedirect(target_address, hook_address, instr_length) ==
    IF is32
    THEN <<JMP_REL32>> \o PackI(target_address - hook_address - NearLen)
         \o (IF instr_length > NearLen THEN Nops(instr_length - NearLen) ELSE <<>>)
    ELSE FAR_PREFIX \o PackQ(target_address)
         \o (IF instr_length > FarLen THEN Nops(instr_length - FarLen) ELSE <<>>)
Detour_Encode ==
    /\ pc = "dh_encode"
    /\ IF frame.target_address.isNone
       THEN \* None - hook_address, struct.pack("Q", None) raise
            /\ Raise("add_hook", IF is32 THEN "TypeError" ELSE "struct.error")
            /\ UNCHANGED frame
       ELSE /\ frame' = [frame EXCEPT !.hook =
                   ForwardRedirect(frame.target_address.val, frame.hook_address,
                                   frame.hook_instr_len)]
            /\ pc' = "dh_read"
            /\ UNCHANGED ret
    /\ UNCHANGED <<exited, scan, is32, mem, prot, blocks, susp, patches, hooks, entry, applied, installed, past, calls>>

\* lines 220, 233: old_bytes = self.read(hook_address, instr_length)
Detour_Read ==
    /\ pc = "dh_read"
    /\ LET old_bytes == ReadProcessMemory(frame.hook_address, frame.hook_instr_len) IN
       frame' = [frame EXCEPT !.old_bytes = old_bytes,
                              !.failed = IF old_bytes.isNone THEN @ \cup {"read"} ELSE @]
    /\ pc' = "dh_write"
    /\ UNCHANGED <<exited, scan, is32, mem, prot, blocks, susp, patches, hooks, ret, entry, applied, installed, past, calls>>

\* lines 221, 234: self.write(hook_address, hook); the result is dropped.
Detour_Write ==
    /\ pc = "dh_write"
    /\ mem' = WriteProcessMemory(mem, frame.hook_address, frame.hook)
    /\ frame' = [frame EXCEPT !.failed = IF WriteOk(frame.hook_address, frame.hook)
                                         THEN @ ELSE @ \cup {"write"}]
    /\ pc' = "dh_restore"
    /\ UNCHANGED <<exited, scan, is32, prot, blocks, susp, patches, hooks, ret, entry, applied, installed, past, calls>>

\* The step without the second VirtualProtectEx: the page stays as the first
\* one left it.
Detour_Restore_Keep ==
    /\ pc = "dh_restore"
    /\ IF frame.old_protect.isNone
       THEN /\ Raise("add_hook", "ArgumentError")
       ELSE /\ pc' = "ah_resume"
            /\ UNCHANGED ret
    /\ UNCHANGED <<exited, scan, is32, mem, prot, blocks, susp, patches, hooks, frame, entry, applied, installed, past, calls>>

\* lines 222-224, 235-237: VirtualProtectEx(..., old_protect); an old_protect
\* of None is no DWORD, and ctypes raises ArgumentError.
Detour_Restore ==
    /\ pc = "dh_restore"
    /\ IF frame.old_protect.isNone
       THEN /\ Raise("add_hook", "ArgumentError")
            /\ prot' = prot
       ELSE /\ prot' = IF ProtectOk(frame.hook_address, frame.hook_instr_len)
                       THEN frame.old_protect.val ELSE prot
            /\ pc' = "ah_resume"
            /\ UNCHANGED ret
    /\ UNCHANGED <<exited, scan, is32, mem, blocks, susp, patches, hooks, frame, entry, applied, installed, past, calls>>

\* line 251: self.resume()
AddHook_Resume ==
    /\ pc = "ah_resume"
    /\ susp' = resume(susp)
    /\ pc' = "ah_record"
    /\ UNCHANGED <<exited, scan, is32, mem, prot, blocks, patches, hooks, frame, ret, entry, applied, installed, past, calls>>

\* line 252: self.hooks[hook_name] = (hook_address, old_bytes, target_address)
AddHook_Record ==
    /\ pc = "ah_record"
    /\ hooks' = [h \in DOMAIN hooks \cup {frame.hook_name} |->
                   IF h = frame.hook_name
                   THEN [hook_address |-> frame.hook_address,
                         old_bytes |-> frame.old_bytes,
                         target_address |-> frame.target_address]
                   ELSE hooks[h]]
    /\ installed' = [h \in DOMAIN installed \cup {frame.hook_name} |->
                       IF h = frame.hook_name
                       THEN [hook_address |-> frame.hook_address,
                             hook_instr_len |-> frame.hook_instr_len,
                             before |-> Bytes(entry.val.mem, frame.hook_address,
                                              frame.hook_instr_len),
                             target_address |-> frame.target_address]
                       ELSE installed[h]]
    /\ pc' = "idle"
    /\ ret' = Ret("add_hook", frame.hook_name, "ok")
    /\ UNCHANGED <<exited, scan, is32, mem, prot, blocks, susp, patches, frame, entry, applied, past, calls>>

\* --------------------------------------------------- Process.remove_hook
\* lines 255-256: the lookup (KeyError for a name not in self.hooks), then
\* self.suspend()
\* The call with the suspend before the lookup of line 255.
RemoveHook_SuspendFirst ==
    /\ pc = "idle"
    /\ MaySuspend
    /\ calls < MaxHookCalls
    /\ calls' = calls + 1
    /\ susp' = suspend(susp)
    /\ \E hook_name \in HookNames :
          IF hook_name \notin DOMAIN hooks
          THEN /\ ret' = Ret("remove_hook", hook_name, "KeyError")
               /\ frame' = [NoFrame EXCEPT !.hook_name = hook_name]
               /\ UNCHANGED pc
          ELSE /\ frame' = [NoFrame EXCEPT !.hook_name = hook_name,
                                           !.hook_address = hooks[hook_name].hook_address,
                                           !.old_bytes = hooks[hook_name].old_bytes,
                                           !.target_address = hooks[hook_name].target_address]
               /\ pc' = "rh_write"
               /\ UNCHANGED ret
    /\ entry' = Some(Snap)
    /\ past' = << >>
    /\ UNCHANGED <<exited, scan, is32, mem, prot, blocks, patches, hooks, applied, installed>>

RemoveHook_Suspend ==
    /\ pc = "idle"
    /\ MaySuspend
    /\ calls < MaxHookCalls
    /\ calls' = calls + 1
    /\ \E hook_name \in HookNames :
          IF hook_name \notin DOMAIN hooks
          THEN /\ ret' = Ret("remove_hook", hook_name, "KeyError")
               /\ frame' = [NoFrame EXCEPT !.hook_name = hook_name]
               /\ UNCHANGED <<susp, pc>>
          ELSE /\ frame' = [NoFrame EXCEPT !.hook_name = hook_name,
                                           !.hook_address = hooks[hook_name].hook_address,
                                           !.old_bytes = hooks[hook_name].old_bytes,
                                           !.target_address = hooks[hook_name].target_address]
               /\ susp' = suspend(susp)
               /\ pc' = "rh_write"
               /\ UNCHANGED ret
    /\ entry' = Some(Snap)
    /\ past' = << >>
    /\ UNCHANGED <<exited, scan, is32, mem, prot, blocks, patches, hooks, applied, installed>>

\* line 257: self.write(hook_address, old_bytes); bytes(None) raises.
RemoveHook_Write ==
    /\ pc = "rh_write"
    /\ IF frame.old_bytes.isNone
       THEN /\ Raise("remove_hook", "TypeError")
            /\ mem' = mem
       ELSE /\ mem' = WriteProcessMemory(mem, frame.hook_address, frame.old_bytes.val)
            /\ pc' = "rh_free"
            /\ UNCHANGED ret
    /\ frame' = [frame EXCEPT !.failed =
                    IF ~frame.old_bytes.isNone
                       /\ ~WriteOk(frame.hook_address, frame.old_bytes.val)
                    THEN @ \cup {"write"} ELSE @]
    /\ UNCHANGED <<exited, scan, is32, prot, blocks, susp, patches, hooks, entry, applied, installed, past, calls>>

\* line 258: self.free(target_address): VirtualFreeEx releases the block;
\* the result is dropped. A released block reads as zeros when handed out again.
free(b) == [c \in DOMAIN blocks \ {b} |-> blocks[c]]
Zeroed(m, b) == [x \in DOMAIN m |-> IF x >= b /\ x < b + PageSize THEN 0 ELSE m[x]]
RemoveHook_Free ==
    /\ pc = "rh_free"
    /\ IF ~frame.target_address.isNone /\ frame.target_address.val \in DOMAIN blocks
       THEN /\ blocks' = free(frame.target_address.val)
            /\ mem' = Zeroed(mem, frame.target_address.val)
       ELSE UNCHANGED <<blocks, mem>>
    /\ frame' = [frame EXCEPT !.failed =
                    IF ~frame.target_address.isNone /\ frame.target_address.val \in DOMAIN blocks
                    THEN @ ELSE @ \cup {"free"}]
    /\ pc' = "rh_resume"
    /\ UNCHANGED <<exited, scan, is32, prot, susp, patches, hooks, ret, entry, applied, installed, past, calls>>

\* line 259: self.resume()
RemoveHook_Resume ==
    /\ pc = "rh_resume"
    /\ susp' = resume(susp)
    /\ pc' = "rh_pop"
    /\ UNCHANGED <<exited, scan, is32, mem, prot, blocks, patches, hooks, frame, ret, entry, applied, installed, past, calls>>

\* line 260: self.hooks.pop(hook_name)
RemoveHook_Pop ==
    /\ pc = "rh_pop"
    /\ hooks' = [h \in DOMAIN hooks \ {frame.hook_name} |-> hooks[h]]
    /\ pc' = "idle"
    /\ ret' = Ret("remove_hook", frame.hook_name, "ok")
    /\ UNCHANGED <<exited, scan, is32, mem, prot, blocks, susp, patches, frame, entry, applied, installed, past, calls>>

PatchCall == AddPatch \/ TogglePatch
ThreadCall == Suspend \/ Resume
ScanCall == YieldMemoryRegions
ScanWalk == ScanBegin \/ ScanIterate
AddHook ==
    \/ AddHook_Suspend
    \/ AddHook_Alloc
    \/ AddHook_Build
    \/ AddHook_Write
    \/ Detour_Protect
    \/ Detour_Encode
    \/ Detour_Read
    \/ Detour_Write
    \/ Detour_Restore
    \/ AddHook_Resume
    \/ AddHook_Record
RemoveHook ==
    \/ RemoveHook_Suspend
    \/ RemoveHook_Write
    \/ RemoveHook_Free
    \/ RemoveHook_Resume
    \/ RemoveHook_Pop

Next == PatchCall \/ ThreadCall \/ ExitThread \/ ScanCall \/ ScanWalk \/ AddHook \/ RemoveHook
Spec == Init /\ [][Next]_vars

\* A caller that installs and removes hooks (and suspends and resumes).
HookNext == ThreadCall \/ AddHook \/ RemoveHook
HookSpec == Init /\ [][HookNext]_vars

\* A caller that applies and toggles patches.
PatchNext == PatchCall
PatchSpec == Init /\ [][PatchNext]_vars

\* A caller that suspends and resumes while threads of the snapshot exit.
ThreadNext == ThreadCall \/ ExitThread
ThreadSpec == Init /\ [][ThreadNext]_vars

\* A caller that applies and toggles patches and asks for the removal of
\* hooks it never installed.
LookupNext == PatchCall \/ RemoveHook_Suspend
LookupSpec == Init /\ [][LookupNext]_vars

\* A caller that scans the regions of the target.
ScanNext == ScanCall
ScanSpec == Init /\ [][ScanNext]_vars

\* A caller that takes the regions from the generator until it is exhausted
\* (a for loop over it), so that a turn of the loop that can be taken is
\* taken. The scan reads neither the bitness nor the protection of the code
\* page: one target stands for the four of Init.
WalkInit == Init /\ is32 /\ prot = PAGE_EXECUTE_READ
WalkNext == ScanWalk
WalkSpec == WalkInit /\ [][WalkNext]_vars /\ WF_vars(ScanIterate)

\* ===================================================================
\* Properties
\* ===================================================================
\* Reading a byte string back as a number (the inverse of the packing the
\* target's processor does when it runs the redirect).
UnpackI(bs) ==
    bs[1] + bs[2] * 256 + bs[3] * 65536
    + (IF bs[4] >= 128 THEN bs[4] - 256 ELSE bs[4]) * 16777216
HighZero(bs) == bs[5] = 0 /\ bs[6] = 0 /\ bs[7] = 0 /\ bs[8] = 0
AllNop(bs, from) == \A i \in from .. Len(bs) : bs[i] = NOP
\* bs, found at address at, is a near redirect (E9 rel32) to dest.
NearTo(bs, at, dest) ==
    /\ Len(bs) >= NearLen
    /\ bs[1] = JMP_REL32
    /\ at + NearLen + UnpackI(SubSeq(bs, 2, 5)) = dest
\* bs is a far redirect (FF 25 00 00 00 00 abs64) to dest.
FarTo(bs, dest) ==
    /\ Len(bs) >= FarLen
    /\ SubSeq(bs, 1, 6) = FAR_PREFIX
    /\ HighZero(SubSeq(bs, 7, 14))
    /\ UnpackI(SubSeq(bs, 7, 10)) = dest
\* bs, found at address at, is the redirect of the target's bitness to dest,
\* padded with NOP to the length of bs.
IsRedirect(bs, at, dest) ==
    IF is32 THEN NearTo(bs, at, dest) /\ AllNop(bs, NearLen + 1)
    ELSE FarTo(bs, dest) /\ AllNop(bs, FarLen + 1)
MinLen == IF is32 THEN NearLen ELSE FarLen
Returned(op) == pc = "idle" /\ ret.op = op
ReturnedOk(op) == Returned(op) /\ ret.outcome = "ok"

\* The add_hook that returned or raised last was given a hook_instr_len the
\* forward redirect fits in.
Fits == frame.hook_instr_len >= MinLen

\* C1: when add_hook or remove_hook returns or raises, every thread of the
\* target has the suspend count it had when the call began (stated for an
\* add_hook whose hook_instr_len the redirect fits in).
C1_NeverLeftSuspended ==
    ((Returned("add_hook") /\ Fits) \/ Returned("remove_hook")) =>
        \A t \in TargetThreads : susp[t] = entry.val.susp[t]

\* C2: after add_hook returns successfully, the hook_instr_len bytes at
\* hook_address are the redirect of the target's bitness to the trampoline
\* recorded in the hook, padded with NOP to exactly hook_instr_len bytes.
C2_RedirectAfterInstall ==
    ReturnedOk("add_hook") =>
        /\ ~hooks[ret.name].target_address.isNone
        /\ IsRedirect(Bytes(mem, frame.hook_address, frame.hook_instr_len),
                      frame.hook_address, hooks[ret.name].target_address.val)

\* C3: after remove_hook returns for a name installed before, the
\* hook_instr_len bytes at hook_address are the bytes that were there before
\* the install, the trampoline of the install is freed and the name is no
\* longer registered (stated for an install whose hook_instr_len the
\* redirect fits in).
C3_InstallRemoveRoundTrip ==
    (ReturnedOk("remove_hook") /\ installed[ret.name].hook_instr_len >= MinLen) =>
        LET i == installed[ret.name] IN
        /\ Bytes(mem, i.hook_address, i.hook_instr_len) = i.before
        /\ i.target_address.val \notin DOMAIN blocks
        /\ ret.name \notin DOMAIN hooks

\* The trailing redirect as it stands in the trampoline once line 248 has
\* written it.
TrailingWritten ==
    /\ pc = "dh_protect"
    /\ ~frame.target_address.isNone
TrailingAt == frame.target_address.val + Len(frame.injected)
TrailingBytes == Bytes(mem, TrailingAt, IF is32 THEN NearLen ELSE FarLen)

\* C4 as claimed: the trailing redirect is, on a 32-bit target, E9 and the
\* displacement hook_address + hook_instr_len - (target_address +
\* len(new_code) + 5); on a 64-bit target FF 25 00 00 00 00 and the address
\* hook_address + hook_instr_len.
C4_TrailingReturnsPastInstr ==
    TrailingWritten =>
        IF is32
        THEN /\ TrailingBytes[1] = JMP_REL32
             /\ UnpackI(SubSeq(TrailingBytes, 2, 5)) =
                   frame.hook_address + frame.hook_instr_len - (TrailingAt + NearLen)
        ELSE FarTo(TrailingBytes, frame.hook_address + frame.hook_instr_len)

\* C4 as amended: on a 32-bit target the displacement is hook_address -
\* (target_address + len(new_code)), so the jump lands on hook_address + 5,
\* the byte after the forward near jump, whatever hook_instr_len is; on a
\* 64-bit target the address is hook_address + hook_instr_len.
C4_TrailingReturnsPastJump ==
    TrailingWritten =>
        IF is32
        THEN /\ TrailingBytes[1] = JMP_REL32
             /\ UnpackI(SubSeq(TrailingBytes, 2, 5)) = frame.hook_address - TrailingAt
             /\ NearTo(TrailingBytes, TrailingAt, frame.hook_address + NearLen)
        ELSE FarTo(TrailingBytes, frame.hook_address + frame.hook_instr_len)
C4_Witness ==
    /\ TrailingWritten
    /\ is32
    /\ frame.hook_instr_len > NearLen
    /\ NearTo(TrailingBytes, TrailingAt, frame.hook_address + NearLen)

\* C5: add_hook with a hook_instr_len below the least length of the forward
\* redirect fails, changes no byte at or after hook_address and records no
\* hook.
C5_TooShortFails ==
    (Returned("add_hook") /\ frame.hook_instr_len < MinLen) =>
        /\ ret.outcome # "ok"
        /\ \A a \in CodeAddrs : a >= frame.hook_address => mem[a] = entry.val.mem[a]
        /\ hooks = entry.val.hooks

\* The bytes now at a patch's address.
Resident(p) == Bytes(mem, applied[p].address, Len(applied[p].instructions))

\* C6 as claimed: an even number (2, 4, ...) of toggles of a patch whose
\* writes succeeded leaves at its address the bytes that were there before
\* add_patch.
C6_EvenTogglesRestoreOriginal ==
    \A p \in DOMAIN applied :
        (applied[p].written /\ applied[p].toggles = 2) =>
            Resident(p) = applied[p].before.val

\* C6 as amended: an even number of toggles leaves at the address the bytes
\* add_patch wrote (instructions), and an odd number the bytes that were
\* there before add_patch.
C6_EvenTogglesRestorePatched ==
    \A p \in DOMAIN applied :
        applied[p].written =>
            /\ applied[p].toggles = 2 => Resident(p) = applied[p].instructions
            /\ applied[p].toggles = 1 => Resident(p) = applied[p].before.val
C6_Witness ==
    \E p \in DOMAIN applied :
        /\ applied[p].written
        /\ applied[p].toggles = 2
        /\ Resident(p) = applied[p].instructions
        /\ applied[p].instructions # applied[p].before.val

\* The last call was a toggle_patch of a registered name whose write
\* succeeded; the last two calls were.
Toggle1 ==
    /\ Len(past) >= 1
    /\ past[1].op = "toggle_patch" /\ past[1].outcome = "ok" /\ past[1].wrote
Toggle2 ==
    /\ Toggle1
    /\ Len(past) = 2
    /\ past[2].op = "toggle_patch" /\ past[2].outcome = "ok" /\ past[2].wrote
    /\ past[2].name = past[1].name
StoredIn(ps, p) == ps[p].old_data.val
ResidentIn(m, ps, p) == Bytes(m, ps[p].address, Len(StoredIn(ps, p)))

\* C7: one toggle_patch of a registered patch swaps the bytes at the patch
\* address with the stored bytes; two in a row leave the bytes at the
\* address, the stored bytes and the stored address as they were.
C7_ToggleInvolution ==
    /\ Toggle1 =>
          LET p == past[1].name IN
          /\ ResidentIn(mem, patches, p) = StoredIn(past[1].patches, p)
          /\ StoredIn(patches, p) = ResidentIn(past[1].mem, past[1].patches, p)
          /\ patches[p].address = past[1].patches[p].address
    /\ Toggle2 =>
          LET p == past[2].name IN
          /\ ResidentIn(mem, patches, p) = ResidentIn(past[2].mem, past[2].patches, p)
          /\ patches[p] = past[2].patches[p]
C7_Witness ==
    /\ Toggle2
    /\ ResidentIn(mem, patches, past[1].name) # StoredIn(patches, past[1].name)

\* C8: add_patch under a name that is registered fails and leaves the
\* registry and the target's memory as they were.
C8_DuplicateNameRefused ==
    (Len(past) >= 1 /\ past[1].op = "add_patch"
        /\ past[1].name \in DOMAIN past[1].patches) =>
        /\ past[1].outcome # "ok"
        /\ patches = past[1].patches
        /\ mem = past[1].mem

\* C9: a hook is recorded only by an add_hook all of whose platform calls
\* succeeded; after an add_hook in which one failed, the bytes at
\* hook_address, the allocated blocks and the hook registry are what they
\* were when the call began (stated for a hook_instr_len the redirect fits in).
C9_AllOrNothing ==
    (Returned("add_hook") /\ Fits) =>
        /\ hooks # entry.val.hooks => (ret.outcome = "ok" /\ frame.failed = {})
        /\ (ret.outcome # "ok" \/ frame.failed # {}) =>
              /\ \A a \in CodeAddrs :
                    (a >= frame.hook_address /\ a < frame.hook_address + frame.hook_instr_len)
                        => mem[a] = entry.val.mem[a]
              /\ blocks = entry.val.blocks
              /\ hooks = entry.val.hooks

\* The bytes at address a are the redirect of the target's bitness to dest.
RedirectAt(a, dest) ==
    IF is32 THEN NearTo(Bytes(mem, a, NearLen), a, dest)
    ELSE FarTo(Bytes(mem, a, FarLen), dest)

\* C10: between calls the bytes at the hook_address of every recorded hook
\* are the redirect to its trampoline; remove_hook has restored the bytes
\* from before the install when it frees the trampoline; and in no state is
\* a freed trampoline still the destination of the redirect at the
\* hook_address it was installed for (stated for installs whose
\* hook_instr_len the redirect fits in).
C10_NoRedirectToFreedTrampoline ==
    /\ pc = "idle" =>
          \A h \in DOMAIN hooks :
              RedirectAt(hooks[h].hook_address, hooks[h].target_address.val)
    /\ \A h \in DOMAIN installed :
          installed[h].hook_instr_len >= MinLen =>
              /\ (pc = "rh_free" /\ frame.hook_name = h) =>
                    Bytes(mem, installed[h].hook_address, installed[h].hook_instr_len)
                        = installed[h].before
              /\ installed[h].target_address.val \notin DOMAIN blocks =>
                    ~RedirectAt(installed[h].hook_address, installed[h].target_address.val)

\* ------------------------------------------------------------ regions
\* A yield_memory_regions call has been made and its generator is exhausted.
Scanned == scan.outcome = "ok"
\* The regions of the scanned layout, as a query at their first byte
\* describes them.
RegionAt(layout, i) ==
    [BaseAddress |-> EndOf(layout, i - 1), RegionSize |-> layout[i].RegionSize,
     State |-> layout[i].State, Protect |-> layout[i].Protect, Type |-> layout[i].Type]
RegionsOf(layout) == [i \in 1..Len(layout) |-> RegionAt(layout, i)]
\* Every predicate the call was given holds for region r.
Matches(r) ==
    /\ ~scan.state.isNone => r.State = scan.state.val
    /\ ~scan.protect.isNone => r.Protect = scan.protect.val
    /\ ~scan.m_type.isNone => r.Type = scan.m_type.val
CountOf(seq, type) == Cardinality({i \in 1..Len(seq) : seq[i].Type = type})

\* C11: for every filter of the documented values, each given or not, and
\* every layout, the regions yield_memory_regions yields are, in order,
\* exactly the regions of the layout for which every given predicate holds.
C11_YieldsExactlyMatching ==
    Scanned => scan.yielded = SelectSeq(RegionsOf(scan.layout), Matches)
C11_Witness ==
    /\ Scanned
    /\ scan.state.isNone /\ scan.protect.isNone
    /\ scan.m_type = Some(MEM_IMAGE)
    /\ Len(scan.layout) = 5
    /\ CountOf(scan.layout, MEM_IMAGE) = 3
    /\ CountOf(scan.layout, MEM_PRIVATE) = 2
    /\ Len(scan.yielded) = 3

\* C14: a scan whose first query fails ends in an error, and a scan in which
\* a query fails after a query that succeeded ends without one.
C14_FirstQueryFailureIsError ==
    Scanned =>
        /\ (scan.ended = "query" /\ scan.queries = 0) => scan.outcome # "ok"
        /\ (scan.ended = "query" /\ scan.queries > 0) => scan.outcome = "ok"

\* ------------------------------------------------------------ threads
\* The last call was a suspend (a resume) as a call of its own.
LastWas(op) == Len(past) >= 1 /\ past[1].op = op
\* The last two calls were a suspend and then a resume, and no thread exited
\* from before the suspend to after the resume.
SuspendThenResume ==
    /\ Len(past) = 2
    /\ past[2].op = "suspend" /\ past[1].op = "resume"
    /\ past[2].exited = past[1].exited /\ past[1].exited = exited

\* C12: suspend followed at once by resume leaves every thread of the
\* target with the suspend count it had before the suspend, whatever the
\* counts were, when the threads are the same for both calls.
C12_SuspendResumeRoundTrip ==
    SuspendThenResume => \A t \in TargetThreads : susp[t] = past[2].susp[t]
C12_Witness ==
    /\ SuspendThenResume
    /\ exited = {}
    /\ \E t \in TargetThreads : past[2].susp[t] > 0
    /\ \A t \in TargetThreads : past[1].susp[t] = past[2].susp[t] + 1

\* The count a suspend (a resume) of a thread that can be opened leaves.
After(op, c) == IF op = "suspend" THEN c + 1 ELSE IF c > 0 THEN c - 1 ELSE 0

\* C19: no suspend, resume, add_hook or remove_hook changes the suspend
\* count of a thread of another process, and each of them suspends (resumes)
\* every thread of the target once: a suspend or resume call moves each
\* count by one, and so do the suspend step and the resume step of add_hook
\* and remove_hook.
C19_OnlyTargetThreadsOnce ==
    /\ \A t \in Threads \ TargetThreads : susp[t] = 0
    /\ \A op \in {"suspend", "resume"} :
          LastWas(op) =>
              \A t \in TargetThreads \ past[1].exited :
                  susp[t] = After(op, past[1].susp[t])
    /\ pc \in {"ah_alloc", "rh_write"} =>
          \A t \in TargetThreads : susp[t] = entry.val.susp[t] + 1
    /\ pc \in {"ah_record", "rh_pop"} =>
          \A t \in TargetThreads : susp[t] = entry.val.susp[t]
C19_Witness ==
    /\ pc = "rh_write"
    /\ \E t \in TargetThreads : entry.val.susp[t] > 0
    /\ \A t \in TargetThreads : susp[t] = entry.val.susp[t] + 1
    /\ \A t \in Threads \ TargetThreads : susp[t] = 0

\* C20: a suspend in which a thread of the target cannot be opened (it has
\* exited) does not end in an error and suspends every other thread of the
\* target; the same holds for resume.
C20_BestEffortBatch ==
    \A op \in {"suspend", "resume"} :
        LastWas(op) =>
            /\ past[1].outcome = "ok"
            /\ \A t \in TargetThreads :
                  susp[t] = IF t \in past[1].exited THEN past[1].susp[t]
                            ELSE After(op, past[1].susp[t])
C20_Witness ==
    /\ LastWas("suspend")
    /\ \E t \in TargetThreads : t \in past[1].exited
    /\ \E t \in TargetThreads : t \notin past[1].exited /\ susp[t] = past[1].susp[t] + 1

\* C13: toggle_patch of a name that is not registered and remove_hook of a
\* name that is not registered fail (with KeyError, the code's UnknownPatch
\* and UnknownHook) before any effect: the target's memory and blocks, both
\* registries and every thread's suspend count are as they were.
C13_UnknownNameNoEffect ==
    /\ (LastWas("toggle_patch") /\ past[1].name \notin DOMAIN past[1].patches) =>
          /\ past[1].outcome = "KeyError"
          /\ ret = Ret("toggle_patch", past[1].name, "KeyError")
          /\ mem = past[1].mem
          /\ patches = past[1].patches
          /\ hooks = past[1].hooks
          /\ susp = past[1].susp
    /\ (Returned("remove_hook") /\ ret.name \notin DOMAIN entry.val.hooks) =>
          /\ ret.outcome = "KeyError"
          /\ mem = entry.val.mem
          /\ blocks = entry.val.blocks
          /\ patches = entry.val.patches
          /\ hooks = entry.val.hooks
          /\ susp = entry.val.susp
C13_Witness ==
    /\ LastWas("toggle_patch")
    /\ past[1].name \notin DOMAIN patches
    /\ ret.outcome = "KeyError"
    /\ patches # << >>
    /\ calls > 0

\* ------------------------------------------------------ hooks, continued
\* C15: the bytes add_hook writes at the trampoline address (new_code with
\* the trailing redirect) are no more than the size it asked alloc_rwx for
\* (stated for a hook_instr_len the redirect fits in).
C15_TrampolineFitsRequest ==
    (TrailingWritten /\ Fits) => Len(frame.new_code) <= blocks[frame.target_address.val]

\* C16: an add_patch whose write is rejected fails and records nothing.
C16_UnwritableNotRecorded ==
    (LastWas("add_patch") /\ ~past[1].wrote) =>
        /\ past[1].outcome # "ok"
        /\ patches = past[1].patches

\* From after the suspend step to before the resume step of add_hook and
\* remove_hook.
Window == {"ah_alloc", "ah_build", "ah_write", "dh_protect", "dh_encode", "dh_read",
           "dh_write", "dh_restore", "ah_resume", "rh_write", "rh_free", "rh_resume"}
AllSuspended(s) == \A t \in TargetThreads : s[t] >= 1
HookWrites == mem' # mem \/ blocks' # blocks \/ prot' # prot

\* C17: every step of add_hook and remove_hook that changes the target (its
\* bytes, its blocks, its page protection) is taken after the suspend step
\* and before the resume step, with every thread of the target suspended
\* before and after the step.
C17_WritesInsideWindow ==
    [][HookWrites => (pc \in Window /\ AllSuspended(susp) /\ AllSuspended(susp'))]_vars
C17_Witness ==
    /\ pc = "dh_restore"
    /\ frame.failed = {}
    /\ Bytes(mem, frame.hook_address, Len(frame.hook)) = frame.hook
    /\ Bytes(mem, frame.hook_address, Len(frame.hook))
          # Bytes(entry.val.mem, frame.hook_address, Len(frame.hook))
    /\ AllSuspended(susp)

\* C18: add_hook reads the bytes at hook_address before it overwrites them,
\* writes them with the page writable and executable, and when it returns
\* the protection of the page is what it was when the call began, for both
\* bitnesses.
C18_ProtectionRestored ==
    /\ (pc = "dh_write" /\ ~frame.old_protect.isNone) =>
          /\ prot = PAGE_EXECUTE_READWRITE
          /\ frame.old_protect.val = entry.val.prot
          /\ frame.old_bytes =
                Some(Bytes(entry.val.mem, frame.hook_address, frame.hook_instr_len))
          /\ Bytes(mem, frame.hook_address, frame.hook_instr_len) = frame.old_bytes.val
    /\ ReturnedOk("add_hook") =>
          /\ prot = entry.val.prot
          /\ hooks[ret.name].old_bytes =
                Some(Bytes(entry.val.mem, frame.hook_address, frame.hook_instr_len))
C18_Witness ==
    /\ ReturnedOk("add_hook")
    /\ entry.val.prot = PAGE_EXECUTE_READ
    /\ prot = PAGE_EXECUTE_READ
    /\ Bytes(mem, frame.hook_address, frame.hook_instr_len)
          # Bytes(entry.val.mem, frame.hook_address, frame.hook_instr_len)

\* ------------------------------------------------- regions, continued
ScanRunning == scan.outcome = "running"
ScanDone == scan.outcome = "ok"
\* From one query of a scan to its next, the address queried grows.
CursorGrows == (ScanRunning /\ scan'.outcome = "running") => scan'.address > scan.address

\* C21: the region scan is finite: the address queried grows from each query
\* to the next, no region is queried twice, and a scan that has begun ends,
\* by the cursor passing the maximum application address or by a query that
\* fails.
C21_ScanFinite ==
    /\ [][CursorGrows]_vars
    /\ [](ScanRunning \/ ScanDone => ~scan.twice)
    /\ [](ScanDone => scan.ended \in {"break", "query"})
    /\ ScanRunning ~> ScanDone
C21_Witness ==
    /\ ScanDone
    /\ Len(scan.layout) = MaxRegions
    /\ scan.queries = MaxRegions
    /\ Cardinality(scan.seen) = MaxRegions
    /\ scan.ended = "break"

\* ------------------------------------------------------ hooks, continued
\* In memory m the bytes at address a are the redirect to dest.
RedirectIn(m, a, dest) ==
    IF is32 THEN NearTo(Bytes(m, a, NearLen), a, dest)
    ELSE FarTo(Bytes(m, a, FarLen), dest)
\* With memory m, blocks bl and registry hk: every block is the trampoline
\* of exactly one record, and every redirect to a block that stands at an
\* address hooks go to has a record with the bytes it replaced.
Tidy(m, bl, hk) ==
    /\ \A b \in DOMAIN bl :
          Cardinality({h \in DOMAIN hk : hk[h].target_address = Some(b)}) = 1
    /\ \A a \in HookAddrs \cap CodeAddrs :
          (\E b \in DOMAIN bl : RedirectIn(m, a, b)) =>
              \E h \in DOMAIN hk : hk[h].hook_address = a /\ ~hk[h].old_bytes.isNone

\* C22: no trampoline is leaked or orphaned: an add_hook (of a hook_instr_len
\* the redirect fits in) or remove_hook that returns with none of its
\* platform calls failed, begun where every block is the trampoline of
\* exactly one record and every installed redirect has a record with its
\* saved bytes, leaves the target and the registry so.
C22_NoTrampolineOrphaned ==
    (/\ (ReturnedOk("add_hook") /\ Fits) \/ ReturnedOk("remove_hook")
     /\ frame.failed = {}
     /\ Tidy(entry.val.mem, entry.val.blocks, entry.val.hooks))
        => Tidy(mem, blocks, hooks)
====
